---- MODULE Spec2Model ----
(***************************************************************************)
(* State-machine model of the editorjs-image-list block tool:              *)
(*   src/src/index.js  (ImageListTool: constructor, save, upload handlers) *)
(*   src/src/ui.js     (Ui: renderItem, showPreloader, initSorting)        *)
(* The Uploader module (uploader.js) is not part of the sources at hand;   *)
(* its behaviour is taken from the written specification.                  *)
(***************************************************************************)
EXTENDS Integers, Sequences, FiniteSets, TLC

(* ---------------------------- bounds ---------------------------------- *)
\* operations the user or the host starts (a click on a remove button, a caption
\* edit, a drag gesture, an upload, a save); the events that follow from one
\* (drag events, preview, response) are not counted
MaxOps == 2

(* ---------------------------- values ---------------------------------- *)
Undefined == "<undefined>"   \* JavaScript undefined / an absent key
Null == 0                    \* JavaScript null (node ids start at 1)
External == Null - 1             \* a drag gesture whose source is not a node of this list

ItemA == [caption |-> "cat", file |-> [url |-> "a.png"]]
ItemB == [caption |-> "a &amp; b", file |-> [url |-> "b.png"]]
ItemC == [caption |-> "", file |-> [url |-> "c.png"]]
ItemRaw == [caption |-> "a & b", file |-> [url |-> "d.png"]]
ItemBare == [caption |-> Undefined, file |-> [url |-> "e.png"]]
ItemX == [caption |-> "other", file |-> [url |-> "x.png"]]
ItemV == [caption |-> "clip", file |-> [url |-> "v.mp4"]]

\* the `data` argument of the constructor: given = FALSE is `undefined`,
\* hasItems = FALSE is an object without an items key
NoData == [given |-> FALSE, hasItems |-> FALSE, items |-> <<>>]
DataOf(s) == [given |-> TRUE, hasItems |-> TRUE, items |-> s]
InitialData ==
  { NoData,
    DataOf(<<ItemA, ItemB, ItemC>>),
    DataOf(<<ItemRaw, ItemBare>>),
    DataOf(<<ItemV>>) }

\* upload responses handed to onUpload
RespOk == [isNull |-> FALSE, success |-> 1, hasFile |-> TRUE, file |-> [url |-> "s.png"]]
RespFail == [isNull |-> FALSE, success |-> 0, hasFile |-> FALSE, file |-> [url |-> Undefined]]
RespNoFile == [isNull |-> FALSE, success |-> 1, hasFile |-> FALSE, file |-> [url |-> Undefined]]
RespNoUrl == [isNull |-> FALSE, success |-> 1, hasFile |-> TRUE, file |-> [url |-> Undefined]]
RespNull == [isNull |-> TRUE, success |-> 0, hasFile |-> FALSE, file |-> [url |-> Undefined]]
Responses == {RespOk, RespFail, RespNoFile, RespNoUrl, RespNull}

PastedUrls == {"http://p.png"}
\* a file the user picks, named by the data URL the Uploader reads from it
SelectedFiles == {"data:image/png;base64,F"}

VARIABLES
  readOnly,    \* this.readOnly
  dataArg,     \* the object passed to the constructor as `data`
  shared,      \* this._data.items is the very array dataArg.items
  mounted,     \* the wrapper returned by render() is in the document
  otherNodes,  \* item nodes of another ImageListTool block of the same document
  node,        \* item nodes made by this tool, by id
  list,        \* children of this.nodes.listContainer, in order
  closure,     \* one (items, current) pair per initSorting call
  dataItems,   \* this._data.items
  uploads,     \* upload attempts, by id
  drag,        \* the browser's drag gesture
  notified,    \* calls of api.notifier.show
  ops,         \* operations started so far
  threw,       \* the last handler ended in an uncaught exception
  saved,       \* save() has been called
  wrapperCls,  \* class list of this.nodes.wrapper, the tool's root node
  loaded,      \* item nodes whose media element has fired its load event
  validated    \* the last call of validate(savedData) and what it returned

vars == <<readOnly, dataArg, shared, mounted, otherNodes, node, list, closure,
          dataItems, uploads, drag, notified, ops, threw, saved,
          wrapperCls, loaded, validated>>

(* --------------------------- sequences -------------------------------- *)
InSeq(x, s) == \E i \in DOMAIN s : s[i] = x

\* 0-based index of x in s, as the scanning loops of ondrop compute it:
\* the position stays 0 when x is not found
PosOf(x, s) == IF InSeq(x, s) THEN (CHOOSE i \in DOMAIN s : s[i] = x) - 1 ELSE 0

Without(s, x) == SelectSeq(s, LAMBDA y : y # x)

(* ------------------------ platform conversions ------------------------ *)
\* JSON.stringify of an item: a key whose value is undefined is left out
Opt(x) == IF x = Undefined THEN <<>> ELSE <<x>>
JSONstringify(item) ==
  [caption |-> Opt(item.caption), file |-> [url |-> Opt(item.file.url)]]

\* JSON.parse of such a text: a key that is left out reads as undefined
Get(o) == IF o = <<>> THEN Undefined ELSE o[1]
JSONparse(text) ==
  [caption |-> Get(text.caption), file |-> [url |-> Get(text.file.url)]]

\* reading element.innerHTML after it was assigned s: the text is parsed as
\* HTML and serialised again, which escapes a bare ampersand
SerializeHTML(s) == IF s = "a & b" THEN "a &amp; b" ELSE s

\* JavaScript truthiness of a string-or-undefined value
Truthy(x) == x # Undefined /\ x # ""

\* `${hash}` in the selector of renderItem
HashStr(hash) == IF hash = Undefined THEN "undefined" ELSE hash

(* ------------------------------ Ui ------------------------------------ *)
\* an element made by make('div', [CSS.imageContainer]): no data attributes,
\* no children, no handlers
NoItem == [caption |-> <<>>, file |-> [url |-> <<>>]]
BlankNode ==
  [hasItem |-> FALSE, item |-> NoItem, hash |-> Undefined,
   hasCaption |-> FALSE, caption |-> "", editable |-> FALSE,
   media |-> "none", src |-> "", preloader |-> FALSE, removeButton |-> FALSE,
   cls |-> {}, draggable |-> FALSE, h |-> 0]

\* this.nodes.imageContainer of the constructor: it carries the item class too
\* and sits in the uploader container, after the list container
Placeholder == BlankNode

\* an initSorting that keeps the tracked list of the call before it
initSortingStale(nd, ls, cl) ==
  LET nd1 == [n \in DOMAIN nd |->
                IF InSeq(n, ls)
                THEN [nd[n] EXCEPT !.draggable = TRUE, !.h = Len(cl) + 1]
                ELSE nd[n]]
  IN [node |-> nd1,
      list |-> ls,
      closure |-> Append(cl, [items |-> IF cl = <<>> THEN <<>> ELSE cl[Len(cl)].items,
                              current |-> Null])]

\* Ui.initSorting: a fresh closure (items = the container's item nodes,
\* current = null) whose handlers replace those of every node of the container
\* A closure that no node's handlers refer to any more is unreachable: it is
\* kept as NoClosure.
NoClosure == [items |-> <<>>, current |-> Null]
initSorting(nd, ls, cl) ==
  LET nd1 == [n \in DOMAIN nd |->
                IF InSeq(n, ls)
                THEN [nd[n] EXCEPT !.draggable = TRUE, !.h = Len(cl) + 1]
                ELSE nd[n]]
  IN [node |-> nd1,
      list |-> ls,
      closure |-> Append([k \in DOMAIN cl |->
                            IF \E n \in DOMAIN nd1 : nd1[n].h = k
                            THEN cl[k] ELSE NoClosure],
                         [items |-> ls, current |-> Null])]

\* querySelector(`.image-list-tool__image[data-hash='${hash}']`) in the wrapper:
\* the first matching node of the list container (the placeholder has no hash)
FindByHash(nd, ls, hash) ==
  IF \E i \in DOMAIN ls : nd[ls[i]].hash = HashStr(hash)
  THEN ls[CHOOSE i \in DOMAIN ls :
            /\ nd[ls[i]].hash = HashStr(hash)
            /\ \A j \in 1..(i - 1) : nd[ls[j]].hash # HashStr(hash)]
  ELSE Null

\* the node's content after the else-branch of renderItem
FilledNode(old, item, ro) ==
  [old EXCEPT !.hasItem = TRUE, !.item = JSONstringify(item), !.hash = "-",
              !.hasCaption = TRUE,
              !.caption = SerializeHTML(IF Truthy(item.caption) THEN item.caption ELSE ""),
              !.editable = ~ro,
              !.media = "img", !.src = item.file.url,
              !.preloader = FALSE, !.removeButton = TRUE]

\* the node's content after the 'preload' branch of renderItem
PreloadNode(old, hash) == [old EXCEPT !.hash = HashStr(hash), !.preloader = TRUE]

\* Ui.renderItem(item, hash, mode); `typeof hash !== undefined` always holds
renderItem(nd, ls, cl, item, hash, mode, ro) ==
  LET found == FindByHash(nd, ls, hash)
      id == IF found # Null THEN found ELSE Len(nd) + 1
      nd1 == IF found # Null THEN nd ELSE Append(nd, BlankNode)
      ls1 == IF found # Null THEN ls ELSE Append(ls, id)
      nd2 == [nd1 EXCEPT ![id] = IF mode = "preload"
                                 THEN PreloadNode(nd1[id], hash)
                                 ELSE FilledNode(nd1[id], item, ro)]
  IN initSorting(nd2, ls1, cl)

\* Ui.showPreloader(src, hash)
showPreloader(nd, ls, cl, src, hash, ro) ==
  renderItem(nd, ls, cl, [caption |-> "", file |-> [url |-> src]], hash, Undefined, ro)

\* Ui.hidePreloader(): an empty body
hidePreloader(nd, ls, cl) == [node |-> nd, list |-> ls, closure |-> cl]

\* Ui.status
StatusEmpty == "empty"
StatusUploading == "loading"
StatusFilled == "filled"

\* Ui.toggleStatus(status): the body is commented out, the class list of the
\* wrapper stays as it is
toggleStatus(cls, status) == cls

\* Ui.render(toolData): toolData is this.data, which has no `file` key
uiRender(cls, hasFile) ==
  IF ~hasFile THEN toggleStatus(cls, StatusEmpty) ELSE toggleStatus(cls, StatusUploading)

\* items.forEach(item => this.ui.renderItem(item)) of `set data`
RECURSIVE RenderAll(_, _, _, _, _)
RenderAll(nd, ls, cl, items, ro) ==
  IF items = <<>> THEN [node |-> nd, list |-> ls, closure |-> cl]
  ELSE LET r == renderItem(nd, ls, cl, Head(items), Undefined, Undefined, ro)
       IN RenderAll(r.node, r.list, r.closure, Tail(items), ro)

(* --------------------------- ImageListTool ---------------------------- *)
\* document.querySelectorAll('.image-list-tool__image'): every element of the
\* document with the item class, in document order
Document(nd, ls, mt, others) ==
  (IF mt THEN [i \in 1..Len(ls) |-> nd[ls[i]]] \o <<Placeholder>> ELSE <<>>) \o others

\* a loop that returns the stored payload, caption included
RECURSIVE SaveScanStored(_)
SaveScanStored(elems) ==
  IF elems = <<>> THEN <<>>
  ELSE LET e == Head(elems)
       IN (IF e.hasItem THEN <<JSONparse(e.item)>> ELSE <<>>)
          \o SaveScanStored(Tail(elems))

\* the loop of save(): nodes without a stored payload are skipped, the caption
\* is read from the caption element
RECURSIVE SaveScan(_)
SaveScan(elems) ==
  IF elems = <<>> THEN <<>>
  ELSE LET e == Head(elems)
       IN (IF e.hasItem
           THEN <<[JSONparse(e.item) EXCEPT !.caption = e.caption]>>
           ELSE <<>>) \o SaveScan(Tail(elems))

SaveResult == SaveScan(Document(node, list, mounted, otherNodes))

(* ------------------------------ DOM ----------------------------------- *)
NextSibling(ls, n) ==
  IF InSeq(n, ls) /\ PosOf(n, ls) + 2 <= Len(ls) THEN ls[PosOf(n, ls) + 2] ELSE Null

\* parent.insertBefore(x, ref): x leaves its place (if it has one) and is put
\* before ref, at the end when ref is null; ref = x stands for x's next sibling
InsertBefore(ls, x, ref) ==
  LET ref1 == IF ref = x THEN NextSibling(ls, x) ELSE ref
      rest == Without(ls, x)
  IN IF ref1 = Null THEN Append(rest, x)
     ELSE SubSeq(rest, 1, PosOf(ref1, rest)) \o <<x>>
          \o SubSeq(rest, PosOf(ref1, rest) + 1, Len(rest))

AddClass(nd, ns, c) ==
  [n \in DOMAIN nd |-> IF n \in ns THEN [nd[n] EXCEPT !.cls = @ \cup {c}] ELSE nd[n]]
RemoveClasses(nd, ns, cs) ==
  [n \in DOMAIN nd |-> IF n \in ns THEN [nd[n] EXCEPT !.cls = @ \ cs] ELSE nd[n]]
Range(s) == {s[i] : i \in DOMAIN s}

(* ------------------------------ Init ---------------------------------- *)
Idle == [src |-> Null, over |-> Null, dropped |-> FALSE]

\* the item node of another block, rendered from its own data
OtherBlocks == {<<>>, <<FilledNode(BlankNode, ItemX, FALSE)>>}

\* no call of validate yet
NotValidated == [called |-> FALSE, hasItems |-> FALSE, items |-> <<>>, result |-> Undefined]

\* the state after `new ImageListTool({data, config, api, readOnly})`
Init ==
  /\ readOnly \in BOOLEAN
  /\ dataArg \in InitialData
  /\ otherNodes \in OtherBlocks
  /\ shared = (dataArg.given /\ dataArg.hasItems)
  /\ dataItems = dataArg.items
  /\ LET r == RenderAll(<<>>, <<>>, <<>>, dataArg.items, readOnly)
     IN node = r.node /\ list = r.list /\ closure = r.closure
  /\ mounted = FALSE
  /\ uploads = <<>>
  /\ drag = Idle
  /\ notified = 0
  /\ ops = 0
  /\ threw = FALSE
  /\ saved = FALSE
  /\ wrapperCls = {"cdx-block", "image-list-tool"}
  /\ loaded = {}
  /\ validated = NotValidated

\* every handler other than upload u's own ends the stretch in which only
\* u's steps have run since u started
Touch(ups, u) ==
  [i \in DOMAIN ups |->
     IF i = u THEN ups[i] ELSE [ups[i] EXCEPT !.quiet = FALSE, !.before = <<>>]]

(* ---------------------------- host calls ------------------------------ *)
\* render(): ui.render returns the wrapper (toggleStatus does nothing) and the
\* editor puts it into the document
Render ==
  /\ ~mounted
  /\ mounted' = TRUE
  /\ wrapperCls' = uiRender(wrapperCls, FALSE)
  /\ uploads' = Touch(uploads, 0)
  /\ threw' = FALSE
  /\ UNCHANGED <<readOnly, dataArg, shared, otherNodes, node, list, closure,
                 dataItems, drag, notified, ops, saved, loaded, validated>>

\* a validate that accepts everything
validateAlways(savedData) == "true"

\* validate(savedData): `savedData.items && savedData.items.length > 0`; with
\* no items key the result is undefined
validate(savedData) ==
  IF ~savedData.hasItems THEN Undefined
  ELSE IF Len(savedData.items) > 0 THEN "true" ELSE "false"

\* what the editor hands to validate: an object without items, one with an
\* empty list, a one-item list, and the object save() returned
SavedData ==
  { [hasItems |-> FALSE, items |-> <<>>],
    [hasItems |-> TRUE, items |-> <<>>],
    [hasItems |-> TRUE, items |-> <<ItemA>>],
    [hasItems |-> TRUE, items |-> dataItems] }

\* the editor calls validate(savedData)
Validate(savedData) ==
  /\ validated' = [called |-> TRUE, hasItems |-> savedData.hasItems,
                   items |-> savedData.items, result |-> validate(savedData)]
  /\ validated' # validated
  /\ UNCHANGED <<readOnly, dataArg, shared, mounted, otherNodes, node, list,
                 closure, dataItems, uploads, drag, notified, ops, threw, saved,
                 wrapperCls, loaded>>

\* save(): this._data.items becomes a new array filled from the document
Save ==
  /\ mounted
  /\ ops < MaxOps
  /\ ops' = ops + 1
  /\ saved' = TRUE
  /\ dataItems' = SaveResult
  /\ shared' = FALSE
  /\ uploads' = Touch(uploads, 0)
  /\ threw' = FALSE
  /\ UNCHANGED <<readOnly, dataArg, mounted, otherNodes, node, list, closure,
                 drag, notified,
                 wrapperCls, loaded, validated>>

(* ---------------------------- user events ----------------------------- *)
\* a remove button that also takes the item out of the in-memory array
RemoveClickSplices(n) ==
  /\ mounted /\ drag = Idle /\ InSeq(n, list) /\ node[n].removeButton
  /\ ops < MaxOps
  /\ ops' = ops + 1
  /\ list' = Without(list, n)
  /\ dataItems' = SubSeq(dataItems, 2, Len(dataItems))
  /\ uploads' = Touch(uploads, 0)
  /\ threw' = FALSE
  /\ UNCHANGED <<readOnly, dataArg, shared, mounted, otherNodes, node,
                 closure, drag, notified, saved,
                 wrapperCls, loaded, validated>>

\* a remove button that leaves the node in the container
RemoveClickHides(n) ==
  /\ mounted /\ drag = Idle /\ InSeq(n, list) /\ node[n].removeButton
  /\ ops < MaxOps
  /\ ops' = ops + 1
  /\ list' = list
  /\ uploads' = Touch(uploads, 0)
  /\ threw' = FALSE
  /\ UNCHANGED <<readOnly, dataArg, shared, mounted, otherNodes, node,
                 closure, dataItems, drag, notified, saved,
                 wrapperCls, loaded, validated>>

\* click on the remove button of node n: imageContainer.remove()
RemoveClick(n) ==
  /\ mounted /\ drag = Idle /\ InSeq(n, list) /\ node[n].removeButton
  /\ ops < MaxOps
  /\ ops' = ops + 1
  /\ list' = Without(list, n)
  /\ uploads' = Touch(uploads, 0)
  /\ threw' = FALSE
  /\ UNCHANGED <<readOnly, dataArg, shared, mounted, otherNodes, node,
                 closure, dataItems, drag, notified, saved,
                 wrapperCls, loaded, validated>>

\* the user types into the caption of node n
EditCaption(n, text) ==
  /\ mounted /\ drag = Idle /\ InSeq(n, list) /\ node[n].hasCaption /\ node[n].editable
  /\ ops < MaxOps
  /\ SerializeHTML(text) # node[n].caption
  /\ node' = [node EXCEPT ![n].caption = SerializeHTML(text)]
  /\ ops' = ops + 1
  /\ uploads' = Touch(uploads, 0)
  /\ threw' = FALSE
  /\ UNCHANGED <<readOnly, dataArg, shared, mounted, otherNodes, list,
                 closure, dataItems, drag, notified, saved,
                 wrapperCls, loaded, validated>>

\* the image of node n has loaded: the listener renderItem attached has an
\* empty body
MediaLoad(n) ==
  /\ n \in DOMAIN node /\ node[n].media = "img" /\ n \notin loaded
  /\ loaded' = loaded \cup {n}
  /\ UNCHANGED <<readOnly, dataArg, shared, mounted, otherNodes, node, list,
                 closure, dataItems, uploads, drag, notified, ops, threw, saved,
                 wrapperCls, validated>>

\* While a drag gesture is in progress the browser delivers drag events only:
\* clicks and typing happen between gestures.  drag.over is the node under the
\* pointer: when the pointer moves to a node, that node gets its dragenter and
\* the node it left gets its dragleave right after it.

\* a dragstart that marks the dragged node hint as well
DragStartHintsAll(n) ==
  /\ mounted /\ drag = Idle /\ InSeq(n, list) /\ node[n].draggable
  /\ ops < MaxOps
  /\ LET k == node[n].h
     IN /\ closure' = [closure EXCEPT ![k].current = n]
        /\ node' = AddClass(AddClass(node, {n}, "current"),
                            Range(closure[k].items), "hint")
  /\ drag' = [src |-> n, over |-> Null, dropped |-> FALSE]
  /\ ops' = ops + 1
  /\ uploads' = Touch(uploads, 0)
  /\ threw' = FALSE
  /\ UNCHANGED <<readOnly, dataArg, shared, mounted, otherNodes, list,
                 dataItems, notified, saved,
                 wrapperCls, loaded, validated>>

\* i.ondragstart
DragStart(n) ==
  /\ mounted /\ drag = Idle /\ InSeq(n, list) /\ node[n].draggable
  /\ ops < MaxOps
  /\ LET k == node[n].h
     IN /\ closure' = [closure EXCEPT ![k].current = n]
        /\ node' = AddClass(AddClass(node, {n}, "current"),
                            Range(closure[k].items) \ {n}, "hint")
  /\ drag' = [src |-> n, over |-> Null, dropped |-> FALSE]
  /\ ops' = ops + 1
  /\ uploads' = Touch(uploads, 0)
  /\ threw' = FALSE
  /\ UNCHANGED <<readOnly, dataArg, shared, mounted, otherNodes, list,
                 dataItems, notified, saved,
                 wrapperCls, loaded, validated>>

\* a drag that starts outside the list (a file of the desktop, a node of
\* another block): no handler of this list runs
ExternalDragStart ==
  /\ mounted /\ drag = Idle
  /\ ops < MaxOps
  /\ drag' = [src |-> External, over |-> Null, dropped |-> FALSE]
  /\ ops' = ops + 1
  /\ uploads' = Touch(uploads, 0)
  /\ threw' = FALSE
  /\ UNCHANGED <<readOnly, dataArg, shared, mounted, otherNodes, node, list,
                 closure, dataItems, notified, saved,
                 wrapperCls, loaded, validated>>

\* the pointer moves onto node n: i.ondragenter of n, then i.ondragleave of
\* the node it came from
DragEnter(n) ==
  /\ mounted /\ drag.src # Null /\ ~drag.dropped /\ InSeq(n, list)
  /\ n # drag.over
  /\ node' = RemoveClasses(IF n # closure[node[n].h].current
                           THEN AddClass(node, {n}, "active") ELSE node,
                           {drag.over} \cap Range(list), {"active"})
  /\ drag' = [drag EXCEPT !.over = n]
  /\ uploads' = Touch(uploads, 0)
  /\ threw' = FALSE
  /\ UNCHANGED <<readOnly, dataArg, shared, mounted, otherNodes, list,
                 closure, dataItems, notified, ops, saved,
                 wrapperCls, loaded, validated>>

\* the pointer leaves the list: i.ondragleave of the node it was over
DragLeave ==
  /\ mounted /\ drag.src # Null /\ ~drag.dropped /\ InSeq(drag.over, list)
  /\ node' = RemoveClasses(node, {drag.over}, {"active"})
  /\ drag' = [drag EXCEPT !.over = Null]
  /\ uploads' = Touch(uploads, 0)
  /\ threw' = FALSE
  /\ UNCHANGED <<readOnly, dataArg, shared, mounted, otherNodes, list,
                 closure, dataItems, notified, ops, saved,
                 wrapperCls, loaded, validated>>

\* a drop handler that moves a node dropped onto itself to the end
ondropSelfToEnd(ls, items, current, i) ==
  IF i = current
  THEN [list |-> Append(Without(ls, i), i), items |-> Append(Without(ls, i), i),
        threw |-> FALSE]
  ELSE IF current = Null THEN [list |-> ls, items |-> items, threw |-> TRUE]
       ELSE LET ls1 == IF PosOf(current, items) < PosOf(i, items)
                       THEN InsertBefore(ls, current, NextSibling(ls, i))
                       ELSE InsertBefore(ls, current, i)
            IN [list |-> ls1, items |-> ls1, threw |-> FALSE]

\* a drop handler without the after-the-target branch
ondropBefore(ls, items, current, i) ==
  IF i = current THEN [list |-> ls, items |-> items, threw |-> FALSE]
  ELSE IF current = Null THEN [list |-> ls, items |-> items, threw |-> TRUE]
       ELSE LET ls1 == InsertBefore(ls, current, i)
            IN [list |-> ls1, items |-> ls1, threw |-> FALSE]

\* the body of i.ondrop for the closure (items, current) of node i, on the
\* container's children ls; insertBefore(null, ...) is a TypeError
ondrop(ls, items, current, i) ==
  IF i = current THEN [list |-> ls, items |-> items, threw |-> FALSE]
  ELSE LET currentPos == PosOf(current, items)
           droppedPos == PosOf(i, items)
       IN IF current = Null THEN [list |-> ls, items |-> items, threw |-> TRUE]
          ELSE LET ls1 == IF currentPos < droppedPos
                          THEN InsertBefore(ls, current, NextSibling(ls, i))
                          ELSE InsertBefore(ls, current, i)
               IN [list |-> ls1, items |-> ls1, threw |-> FALSE]

\* i.ondrop: the browser delivers the drop to the node the pointer is over; a
\* gesture that started on a node of the list still gets its dragend
Drop(n) ==
  /\ mounted /\ drag.src # Null /\ ~drag.dropped /\ InSeq(n, list)
  /\ drag.over = n
  /\ LET k == node[n].h
         r == ondrop(list, closure[k].items, closure[k].current, n)
     IN /\ list' = r.list
        /\ closure' = [closure EXCEPT ![k].items = r.items]
        /\ threw' = r.threw
  /\ drag' = IF drag.src = External THEN Idle
             ELSE [drag EXCEPT !.dropped = TRUE, !.over = Null]
  /\ uploads' = Touch(uploads, 0)
  /\ UNCHANGED <<readOnly, dataArg, shared, mounted, otherNodes, node,
                 dataItems, notified, ops, saved,
                 wrapperCls, loaded, validated>>

\* a dragend that leaves the current mark
DragEndKeepsCurrent ==
  /\ drag.src # Null /\ drag.src # External
  /\ node' = RemoveClasses(node, Range(closure[node[drag.src].h].items),
                           {"hint", "active"})
  /\ drag' = Idle
  /\ uploads' = Touch(uploads, 0)
  /\ threw' = FALSE
  /\ UNCHANGED <<readOnly, dataArg, shared, mounted, otherNodes, list,
                 closure, dataItems, notified, ops, saved,
                 wrapperCls, loaded, validated>>

\* i.ondragend, delivered to the node the gesture started on
DragEnd ==
  /\ drag.src # Null /\ drag.src # External
  /\ node' = RemoveClasses(node, Range(closure[node[drag.src].h].items),
                           {"hint", "active", "current"})
  /\ drag' = Idle
  /\ uploads' = Touch(uploads, 0)
  /\ threw' = FALSE
  /\ UNCHANGED <<readOnly, dataArg, shared, mounted, otherNodes, list,
                 closure, dataItems, notified, ops, saved,
                 wrapperCls, loaded, validated>>

\* an outside drag ends without a drop on the list
ExternalDragEnd ==
  /\ drag.src = External
  /\ drag' = Idle
  /\ uploads' = Touch(uploads, 0)
  /\ threw' = FALSE
  /\ UNCHANGED <<readOnly, dataArg, shared, mounted, otherNodes, node, list,
                 closure, dataItems, notified, ops, saved,
                 wrapperCls, loaded, validated>>

(* ------------------------------ uploads ------------------------------- *)
\* an attempt handed to the Uploader; before and quiet record what save()
\* would have returned when it started and whether only its own steps ran since
NewUpload(kind, src, stage, preview) ==
  [kind |-> kind, src |-> src, stage |-> stage, preview |-> preview,
   failed |-> FALSE, notes |-> 0, appended |-> 0,
   before |-> SaveResult, quiet |-> TRUE]

\* The Uploader: a request that got a file first hands its data URL to onPreview;
\* a request whose preview is shown ends with one call of onUpload or onError
AwaitsPreview(u) == u \in DOMAIN uploads /\ uploads[u].stage = "reading"
AwaitsResponse(u) == u \in DOMAIN uploads /\ uploads[u].stage = "sent"

\* an uploadUrl that hands the url to the Uploader without a preview
UploadUrlNoPreview(url) ==
  /\ ops < MaxOps
  /\ ops' = ops + 1
  /\ uploads' = Append(Touch(uploads, 0), NewUpload("url", url, "sent", Null))
  /\ threw' = FALSE
  /\ UNCHANGED <<readOnly, dataArg, shared, mounted, otherNodes, node, list,
                 closure, dataItems, drag, notified, saved,
                 wrapperCls, loaded, validated>>

\* uploadUrl(url): the preview is rendered, then the Uploader gets the url
UploadUrl(url) ==
  /\ ops < MaxOps
  /\ ops' = ops + 1
  /\ LET r == showPreloader(node, list, closure, url, Undefined, readOnly)
     IN node' = r.node /\ list' = r.list /\ closure' = r.closure
  /\ uploads' = Append(Touch(uploads, 0), NewUpload("url", url, "sent", Len(node) + 1))
  /\ threw' = FALSE
  /\ UNCHANGED <<readOnly, dataArg, shared, mounted, otherNodes, dataItems,
                 drag, notified, saved,
                 wrapperCls, loaded, validated>>

\* uploadFile(file): the Uploader gets the file and the preview callback
UploadFile(file) ==
  /\ ops < MaxOps
  /\ ops' = ops + 1
  /\ uploads' = Append(Touch(uploads, 0), NewUpload("file", file, "reading", Null))
  /\ threw' = FALSE
  /\ UNCHANGED <<readOnly, dataArg, shared, mounted, otherNodes, node, list,
                 closure, dataItems, drag, notified, saved,
                 wrapperCls, loaded, validated>>

\* click on the file button: onSelectFile -> uploader.uploadSelectedFile
SelectFile(file) ==
  /\ mounted /\ drag = Idle
  /\ ops < MaxOps
  /\ ops' = ops + 1
  /\ uploads' = Append(Touch(uploads, 0), NewUpload("file", file, "reading", Null))
  /\ threw' = FALSE
  /\ UNCHANGED <<readOnly, dataArg, shared, mounted, otherNodes, node, list,
                 closure, dataItems, drag, notified, saved,
                 wrapperCls, loaded, validated>>

\* the Uploader calls onPreview(src) with the data URL of the file
Preview(u) ==
  /\ AwaitsPreview(u)
  /\ LET r == showPreloader(node, list, closure, uploads[u].src, Undefined, readOnly)
     IN node' = r.node /\ list' = r.list /\ closure' = r.closure
  /\ uploads' = [Touch(uploads, u) EXCEPT ![u].stage = "sent",
                                          ![u].preview = Len(node) + 1]
  /\ threw' = FALSE
  /\ UNCHANGED <<readOnly, dataArg, shared, mounted, otherNodes, dataItems,
                 drag, notified, ops, saved,
                 wrapperCls, loaded, validated>>

\* the state a handler leaves untouched
Same == [dataItems |-> dataItems, dataArg |-> dataArg, node |-> node,
         list |-> list, closure |-> closure, notified |-> notified,
         threw |-> FALSE]

\* a setter that skips an item the array already holds
setImageDedup(hasFile, file) ==
  IF hasFile /\ Truthy(file.url) /\ ~InSeq([caption |-> "", file |-> file], dataItems)
  THEN LET item == [caption |-> "", file |-> file]
           r == renderItem(node, list, closure, item, Undefined, Undefined, readOnly)
       IN [Same EXCEPT !.dataItems = Append(dataItems, item),
                       !.dataArg = IF shared THEN [dataArg EXCEPT !.items = Append(@, item)]
                                   ELSE dataArg,
                       !.node = r.node, !.list = r.list, !.closure = r.closure]
  ELSE Same

\* a setter that renders the item without storing it
setImageNoPush(hasFile, file) ==
  IF hasFile /\ Truthy(file.url)
  THEN LET item == [caption |-> "", file |-> file]
           r == renderItem(node, list, closure, item, Undefined, Undefined, readOnly)
       IN [Same EXCEPT !.node = r.node, !.list = r.list, !.closure = r.closure]
  ELSE Same

\* `set image(file)`
setImage(hasFile, file) ==
  IF hasFile /\ Truthy(file.url)
  THEN LET item == [caption |-> "", file |-> file]
           r == renderItem(node, list, closure, item, Undefined, Undefined, readOnly)
       IN [Same EXCEPT !.dataItems = Append(dataItems, item),
                       !.dataArg = IF shared THEN [dataArg EXCEPT !.items = Append(@, item)]
                                   ELSE dataArg,
                       !.node = r.node, !.list = r.list, !.closure = r.closure]
  ELSE Same

\* a failure handler that notifies twice
uploadingFailedTwice ==
  LET r == hidePreloader(node, list, closure)
  IN [Same EXCEPT !.notified = notified + 2,
                  !.node = r.node, !.list = r.list, !.closure = r.closure]

\* uploadingFailed(errorText): one notification, then ui.hidePreloader()
uploadingFailed ==
  LET r == hidePreloader(node, list, closure)
  IN [Same EXCEPT !.notified = notified + 1,
                  !.node = r.node, !.list = r.list, !.closure = r.closure]

\* an onUpload that drops a response that arrives after save()
onUploadUnlessSaved(response) ==
  IF response.isNull THEN [Same EXCEPT !.threw = TRUE]
  ELSE IF saved THEN Same
  ELSE IF response.success # 0 /\ response.hasFile
       THEN setImage(response.hasFile, response.file)
       ELSE uploadingFailed

\* onUpload(response); reading response.success of null is a TypeError
onUpload(response) ==
  IF response.isNull THEN [Same EXCEPT !.threw = TRUE]
  ELSE IF response.success # 0 /\ response.hasFile
       THEN setImage(response.hasFile, response.file)
       ELSE uploadingFailed

\* the Uploader hands the server's response to onUpload, once
Response(u, response) ==
  /\ AwaitsResponse(u)
  /\ LET r == onUpload(response)
     IN /\ dataItems' = r.dataItems /\ dataArg' = r.dataArg
        /\ node' = r.node /\ list' = r.list /\ closure' = r.closure
        /\ notified' = r.notified /\ threw' = r.threw
        /\ uploads' = [Touch(uploads, u) EXCEPT
                         ![u].stage = "done",
                         ![u].failed = (~response.isNull /\ response.success = 0),
                         ![u].notes = @ + (r.notified - notified),
                         ![u].appended = Len(r.dataItems) - Len(dataItems)]
  /\ UNCHANGED <<readOnly, shared, mounted, otherNodes, drag, ops, saved,
                 wrapperCls, loaded, validated>>

\* the Uploader reports a transport error to onError, once
Error(u) ==
  /\ AwaitsResponse(u)
  /\ LET r == uploadingFailed
     IN /\ dataItems' = r.dataItems /\ dataArg' = r.dataArg
        /\ node' = r.node /\ list' = r.list /\ closure' = r.closure
        /\ notified' = r.notified /\ threw' = r.threw
        /\ uploads' = [Touch(uploads, u) EXCEPT
                         ![u].stage = "done",
                         ![u].failed = TRUE,
                         ![u].notes = @ + (r.notified - notified)]
  /\ UNCHANGED <<readOnly, shared, mounted, otherNodes, drag, ops, saved,
                 wrapperCls, loaded, validated>>

(* --------------------------- specification ---------------------------- *)
TypedTexts == {"a & b"}

Next ==
  \/ Render
  \/ Save
  \/ \E n \in DOMAIN node : RemoveClick(n)
  \/ \E n \in DOMAIN node, t \in TypedTexts : EditCaption(n, t)
  \/ \E n \in DOMAIN node : DragStart(n)
  \/ ExternalDragStart
  \/ \E n \in DOMAIN node : DragEnter(n)
  \/ DragLeave
  \/ \E n \in DOMAIN node : Drop(n)
  \/ DragEnd
  \/ ExternalDragEnd
  \/ \E url \in PastedUrls : UploadUrl(url)
  \/ \E file \in SelectedFiles : UploadFile(file)
  \/ \E file \in SelectedFiles : SelectFile(file)
  \/ \E u \in DOMAIN uploads : Preview(u)
  \/ \E u \in DOMAIN uploads, response \in Responses : Response(u, response)
  \/ \E u \in DOMAIN uploads : Error(u)

Spec == Init /\ [][Next]_vars

\* The tool with the events that touch neither the list nor the drag handlers:
\* the editor validating saved data and the media of the items loading
NextHost ==
  \/ Render
  \/ Save
  \/ \E n \in DOMAIN node : RemoveClick(n)
  \/ \E url \in PastedUrls : UploadUrl(url)
  \/ \E u \in DOMAIN uploads, response \in Responses : Response(u, response)
  \/ \E u \in DOMAIN uploads : Error(u)
  \/ \E n \in DOMAIN node : MediaLoad(n)
  \/ \E savedData \in SavedData : Validate(savedData)

SpecHost == Init /\ [][NextHost]_vars

TypeOK ==
  /\ readOnly \in BOOLEAN /\ mounted \in BOOLEAN /\ shared \in BOOLEAN
  /\ ops \in 0..MaxOps /\ Len(uploads) <= ops
  /\ \A i \in DOMAIN list : list[i] \in DOMAIN node

(* ------------------------------ claims -------------------------------- *)
\* what a node of the list shows: its caption text and the source of its image
ItemShown(n) == [caption |-> node[n].caption, file |-> [url |-> node[n].src]]
ListItems == [i \in 1..Len(list) |-> ItemShown(list[i])]

RemoveAt(s, i) == SubSeq(s, 1, i - 1) \o SubSeq(s, i + 1, Len(s))
InsertAt(s, i, x) == SubSeq(s, 1, i - 1) \o <<x>> \o SubSeq(s, i, Len(s))

\* the before/after rule on the order of the container: a leaves its place and
\* lands right after b when it stood before b, right before b otherwise
MoveByRule(ls, a, b) ==
  IF a = b THEN ls
  ELSE LET rest == Without(ls, a)
       IN IF PosOf(a, ls) < PosOf(b, ls)
          THEN InsertAt(rest, PosOf(b, rest) + 2, a)
          ELSE InsertAt(rest, PosOf(b, rest) + 1, a)

\* the closure whose handlers node n carries
ItemsOf(n) == closure[node[n].h].items
CurrentOf(n) == closure[node[n].h].current

\* C1: whatever happened before, the items save() returns are the items of the
\* nodes of the list container, in the container's order.
C1_SaveReturnsListOrder == [][Save => dataItems' = ListItems']_vars

\* C2: a drop that ends a gesture begun on a node of the list (no render since
\* its dragstart) leaves the same nodes in the container, none lost and none
\* twice, in the order the before/after rule gives.
C2_DropsPermuteByRule ==
  [][\A n \in DOMAIN node :
       (Drop(n) /\ InSeq(drag.src, list) /\ CurrentOf(n) = drag.src)
       => /\ list' = MoveByRule(list, drag.src, n)
          /\ Range(list') = Range(list)
          /\ Len(list') = Len(list)]_vars

\* two complete gestures have reversed a list of three
C2_Witness == drag = Idle /\ ops = 2 /\ list = <<3, 2, 1>>

\* C3: a drop on another node puts the dragged node right after the target when
\* its tracked index is smaller and right before it otherwise; and after A was
\* dragged onto C in [A,B,C], save() returns [B,C,A].
C3_DropRuleThenSave ==
  [][/\ \A n \in DOMAIN node :
          (Drop(n) /\ CurrentOf(n) # Null /\ CurrentOf(n) # n
                   /\ InSeq(CurrentOf(n), list))
          => IF PosOf(CurrentOf(n), ItemsOf(n)) < PosOf(n, ItemsOf(n))
             THEN PosOf(CurrentOf(n), list') = PosOf(n, list') + 1
             ELSE PosOf(CurrentOf(n), list') + 1 = PosOf(n, list')
     /\ (Save /\ list = <<2, 3, 1>> /\ closure[Len(closure)].current = 1
              /\ ListItems = <<ItemB, ItemC, ItemA>>)
          => dataItems' = <<ItemB, ItemC, ItemA>>]_vars

\* C4: save() right after construction and render returns the items the tool
\* was constructed with, in their order; nothing when it got no data.
C4_RoundTrip == [][(Save /\ ops = 0) => dataItems' = dataArg.items]_vars

\* C5: after a click on the remove button of a node, save() returns what it
\* would have returned before the click without that node's item, the others in
\* their order; and what save() returns is the scan of the document it leaves.
C5_RemoveThenSave ==
  [][/\ \A n \in DOMAIN node :
          RemoveClick(n) => SaveResult' = RemoveAt(SaveResult, PosOf(n, list) + 1)
     /\ Save => dataItems' = SaveResult']_vars

\* a node was removed from a list of three and save() was called after it
C5_Witness ==
  /\ saved /\ ops = 2 /\ uploads = <<>> /\ Len(closure) = 3
  /\ closure[3].current = Null
  /\ Len(list) = 2
  /\ dataItems = SaveResult

\* C6: while an upload is in flight its preview node has no stored payload, and
\* save() returns what it returned before the upload started.
C6_PreviewNotSaved ==
  \A u \in DOMAIN uploads :
    uploads[u].stage = "sent"
    => /\ ~node[uploads[u].preview].hasItem
       /\ uploads[u].quiet => SaveResult = uploads[u].before

\* C7: a response with a truthy success flag and a file with a url appends one
\* item {caption: '', file} to the data array and one node for it to the list.
C7_SuccessAppendsOne ==
  [][\A u \in DOMAIN uploads, r \in Responses :
       (Response(u, r) /\ ~r.isNull /\ r.success # 0 /\ r.hasFile /\ Truthy(r.file.url))
       => /\ dataItems' = Append(dataItems, [caption |-> "", file |-> r.file])
          /\ Len(node') = Len(node) + 1
          /\ list' = Append(list, Len(node'))
          /\ node'[Len(node')].hasItem
          /\ JSONparse(node'[Len(node')].item) = [caption |-> "", file |-> r.file]
          /\ node'[Len(node')].src = r.file.url
          /\ node'[Len(node')].caption = ""]_vars

\* an upload has succeeded on a list that had items
C7_Witness ==
  \E u \in DOMAIN uploads :
    /\ uploads[u].stage = "done" /\ uploads[u].appended = 1
    /\ Len(dataItems) >= 3 /\ Len(list) >= 3
    /\ dataItems[Len(dataItems)] = [caption |-> "", file |-> RespOk.file]
    /\ node[list[Len(list)]].src = RespOk.file.url

\* C8: after a failed upload nothing was appended, and save() returns what it
\* would have returned just before the upload started.
C8_FailureAddsNothing ==
  \A u \in DOMAIN uploads :
    (uploads[u].stage = "done" /\ uploads[u].failed /\ uploads[u].quiet)
    => uploads[u].appended = 0 /\ SaveResult = uploads[u].before

\* C9: after a failed upload the list container no longer holds the preview
\* node of that attempt.
C9_FailureHidesPreview ==
  \A u \in DOMAIN uploads :
    (uploads[u].stage = "done" /\ uploads[u].failed)
    => ~InSeq(uploads[u].preview, list)

\* C10: a failed attempt has raised exactly one notification, no attempt raises
\* more than one, every notification belongs to an attempt, and an attempt
\* that has ended stays ended: no further request, no further notification.
RECURSIVE SumNotes(_)
SumNotes(ups) == IF ups = <<>> THEN 0 ELSE Head(ups).notes + SumNotes(Tail(ups))

C10_OneNotification ==
  [][/\ \A u \in DOMAIN uploads' :
          /\ (uploads'[u].stage = "done" /\ uploads'[u].failed) => uploads'[u].notes = 1
          /\ uploads'[u].stage # "done" => uploads'[u].notes = 0
          /\ uploads'[u].notes <= 1
     /\ notified' = SumNotes(uploads')
     /\ \A u \in DOMAIN uploads :
          uploads[u].stage = "done"
          => uploads'[u].stage = "done" /\ uploads'[u].notes = uploads[u].notes]_vars

\* an attempt has failed, with one notification, and other handlers ran since
C10_Witness ==
  \E u \in DOMAIN uploads :
    /\ uploads[u].stage = "done" /\ uploads[u].failed /\ ~uploads[u].quiet
    /\ uploads[u].notes = 1 /\ notified = 1

\* a response that is not {success: truthy, file: {url: truthy}}
Malformed(r) == r.isNull \/ r.success = 0 \/ ~r.hasFile \/ ~Truthy(r.file.url)

\* C11: every malformed response is handled as a failure: one notification is
\* raised, the data array stays as it is and the handler ends without an
\* uncaught exception.
C11_MalformedIsFailure ==
  [][\A u \in DOMAIN uploads, r \in Responses :
       (Response(u, r) /\ Malformed(r))
       => /\ notified' = notified + 1
          /\ dataItems' = dataItems
          /\ ~threw']_vars

\* the payload-carrying nodes of this tool's own list container
OwnElements == [i \in 1..Len(list) |-> node[list[i]]]

\* C12: save() returns exactly the items of the nodes of the tool's own list
\* container; no item of another block of the page is among them.
C12_SaveScansOwnList == [][Save => dataItems' = SaveScan(OwnElements)]_vars

\* the place in save()'s output of the i-th node of the list container
OutputIndex(i) == Cardinality({j \in 1..i : node[list[j]].hasItem})

\* C13: for every payload-carrying node of the list, save() returns the text
\* now in its caption element, and the file of its stored payload unchanged.
C13_SaveReadsLiveCaption ==
  [][Save =>
       \A i \in 1..Len(list) :
         node[list[i]].hasItem
         => /\ dataItems'[OutputIndex(i)].caption = node[list[i]].caption
            /\ dataItems'[OutputIndex(i)].file = JSONparse(node[list[i]].item).file
            /\ dataItems'[OutputIndex(i)].file.url = node[list[i]].src]_vars

\* save() has returned an edited caption that differs from the stored one
C13_Witness ==
  /\ saved /\ Len(list) >= 1 /\ Len(dataItems) >= 1
  /\ dataArg = DataOf(<<ItemA, ItemB, ItemC>>)
  /\ node[list[1]].hasItem
  /\ JSONparse(node[list[1]].item).caption = "cat"
  /\ node[list[1]].caption = "a &amp; b"
  /\ dataItems[1] = [caption |-> "a &amp; b", file |-> [url |-> "a.png"]]

\* C14: validate(data) returns true exactly when data has an items list with at
\* least one element, and a falsy result (false or undefined) otherwise.
C14_ValidateNonEmpty ==
  validated.called
  => LET nonEmpty == validated.hasItems /\ Len(validated.items) >= 1
     IN /\ (validated.result = "true") <=> nonEmpty
        /\ ~nonEmpty => validated.result \in {"false", Undefined}

\* validate was applied to what save() returned for a list of several items
C14_Witness ==
  /\ validated.called /\ saved
  /\ validated.items = dataItems /\ Len(dataItems) >= 2
  /\ validated.result = "true"

\* C15: an upload's preview is rendered in the list, with the upload's source,
\* before its response or error is handled: an attempt ends only after its
\* preview was shown, for uploads by file and by url alike.
C15_PreviewBeforeResponse ==
  [][/\ \A u \in DOMAIN uploads' :
          uploads'[u].stage \in {"sent", "done"}
          => /\ uploads'[u].preview \in DOMAIN node'
             /\ node'[uploads'[u].preview].src = uploads'[u].src
     /\ \A u \in DOMAIN uploads' :
          (uploads'[u].stage = "sent" /\ (u \notin DOMAIN uploads \/ uploads[u].stage # "sent"))
          => InSeq(uploads'[u].preview, list')
     /\ \A u \in DOMAIN uploads :
          (uploads'[u].stage = "done" /\ uploads[u].stage # "done")
          => uploads[u].stage = "sent"]_vars

\* an upload by file and an upload by url have both ended
C15_Witness ==
  \E u, v \in DOMAIN uploads :
    /\ uploads[u].kind = "file" /\ uploads[u].stage = "done"
    /\ uploads[v].kind = "url" /\ uploads[v].stage = "done"
    /\ InSeq(uploads[u].preview, list) /\ InSeq(uploads[v].preview, list)

\* urls that end in a video extension
VideoUrls == {"v.mp4"}

\* C16: a rendered item shows a video element when its url ends in a video
\* extension and an image element otherwise.
C16_VideoForVideoUrl ==
  \A n \in DOMAIN node :
    node[n].hasItem
    => node[n].media = (IF node[n].src \in VideoUrls THEN "video" ELSE "img")

\* the status classes of the wrapper
FilledClass == "image-list-tool--filled"
EmptyClass == "image-list-tool--empty"
LoadingClass == "image-list-tool--loading"

\* C17: once the media of an item has loaded, the wrapper carries the filled
\* status class and neither the empty nor the loading one.
C17_FilledAfterLoad ==
  loaded # {}
  => /\ FilledClass \in wrapperCls
     /\ EmptyClass \notin wrapperCls
     /\ LoadingClass \notin wrapperCls

Highlights == {"current", "hint", "active"}

\* C18: dragstart marks the dragged node current and not hint, and marks hint
\* every other node its handlers track and every other node of the list.
C18_DragStartMarks ==
  [][\A n \in DOMAIN node :
       DragStart(n)
       => /\ "current" \in node'[n].cls
          /\ "hint" \notin node'[n].cls
          /\ \A m \in (Range(ItemsOf(n)) \cup Range(list)) \ {n} :
               "hint" \in node'[m].cls /\ "current" \notin node'[m].cls]_vars

\* a gesture has started on the second node of a list of three
C18_Witness ==
  /\ drag = [src |-> 2, over |-> Null, dropped |-> FALSE]
  /\ list = <<1, 2, 3>>
  /\ node[2].cls = {"current"} /\ node[1].cls = {"hint"} /\ node[3].cls = {"hint"}

\* C19: after dragend no node of the list container carries a highlight class.
C19_DragEndClears ==
  [][DragEnd => \A n \in Range(list') : node'[n].cls \cap Highlights = {}]_vars

\* a gesture that moved the first node to the end has ended
C19_Witness ==
  /\ drag = Idle /\ list = <<2, 3, 1>>
  /\ \E k \in DOMAIN closure : closure[k].current = 1
  /\ \A n \in Range(list) : node[n].cls \cap Highlights = {}

\* C20: throughout a gesture the node being dragged does not carry the active
\* class.
C20_DraggedNeverActive ==
  drag.src \in DOMAIN node => "active" \notin node[drag.src].cls

\* C21: a drop of the dragged node onto itself leaves the order of the list
\* container and the tracked node list as they were.
C21_SelfDropKeepsOrder ==
  [][\A n \in DOMAIN node :
       (Drop(n) /\ drag.src = n)
       => list' = list /\ closure'[node[n].h].items = ItemsOf(n)]_vars

\* the only event of a gesture's drop was on the node it started on
C21_Witness ==
  /\ drag.dropped /\ drag.src \in DOMAIN node /\ ops = 1 /\ uploads = <<>>
  /\ ~threw /\ CurrentOf(drag.src) = drag.src
  /\ list = <<1, 2, 3>>

\* C22: a drop and a remove click leave the in-memory items array as it was;
\* the array changes only in save() and in the handling of an upload response.
C22_ArrayChangesOnlyOnSaveAndUpload ==
  [][/\ \A n \in DOMAIN node : (Drop(n) \/ RemoveClick(n)) => dataItems' = dataItems
     /\ dataItems' # dataItems
          => \/ Save
             \/ \E u \in DOMAIN uploads, r \in Responses :
                  Response(u, r) /\ ~Malformed(r)]_vars

\* a node was removed and the array still holds its item
C22_Witness ==
  /\ ~saved /\ uploads = <<>> /\ ops = 1
  /\ Len(list) = 2 /\ dataItems = <<ItemA, ItemB, ItemC>>

\* s holds every element of t, in the order of t
HoldsInOrder(s, t) ==
  /\ \A i \in DOMAIN t : InSeq(t[i], s)
  /\ \A i, j \in DOMAIN t : i < j => PosOf(t[i], s) < PosOf(t[j], s)

\* a step in which renderItem ran
RenderedItem ==
  \/ \E url \in PastedUrls : UploadUrl(url)
  \/ \E u \in DOMAIN uploads : Preview(u)
  \/ \E u \in DOMAIN uploads, r \in Responses : Response(u, r) /\ ~Malformed(r)

\* C23: after an item render the tracked list of the latest initSorting call
\* is the list container's children; after a drop it holds every node of the
\* container in container order; in both cases every node of the container is
\* draggable and carries the handlers of the latest call.
C23_TrackedListCoversContainer ==
  [][/\ RenderedItem => closure'[Len(closure')].items = list'
     /\ (RenderedItem \/ \E n \in DOMAIN node : Drop(n))
          => /\ HoldsInOrder(closure'[Len(closure')].items, list')
             /\ \A m \in Range(list') :
                  node'[m].draggable /\ node'[m].h = Len(closure')]_vars

\* a node was removed, then another was dragged onto its neighbour
C23_Witness ==
  /\ drag.dropped /\ list = <<3, 2>>
  /\ closure[Len(closure)].items = <<3, 2>>

\* the item an upload response stands for
ItemOf(r) == [caption |-> "", file |-> r.file]

\* C24: a successful response that arrives after save() was called still
\* appends its item to the data array and renders it at the end of the list,
\* and what save() returns from then on includes the item.
C24_SaveDoesNotCancelUpload ==
  [][\A u \in DOMAIN uploads, r \in Responses :
       (Response(u, r) /\ ~Malformed(r) /\ saved)
       => /\ dataItems' = Append(dataItems, ItemOf(r))
          /\ list' = Append(list, Len(node'))
          /\ node'[Len(node')].src = r.file.url
          /\ InSeq(ItemOf(r), SaveResult')]_vars

\* save() was called while the upload was in flight: the array it built ends
\* with the other block's item, and the uploaded item was pushed after it
C24_Witness ==
  /\ saved /\ Len(uploads) = 1 /\ uploads[1].stage = "done" /\ uploads[1].appended = 1
  /\ Len(dataItems) >= 2
  /\ dataItems[Len(dataItems)] = ItemOf(RespOk)
  /\ dataItems[Len(dataItems) - 1] = ItemX

\* C25: with several uploads started, every successful response appends its
\* own item to the data array and its node at the end of the list, in the
\* order of arrival, also when the array already holds an equal item.
C25_ConcurrentUploadsAllAppend ==
  [][\A u \in DOMAIN uploads, r \in Responses :
       (Response(u, r) /\ ~Malformed(r) /\ Len(uploads) >= 2)
       => /\ dataItems' = Append(dataItems, ItemOf(r))
          /\ Len(node') = Len(node) + 1
          /\ list' = Append(list, Len(node'))
          /\ node'[Len(node')].src = r.file.url]_vars

\* two uploads of the same url were in flight together and both succeeded
C25_Witness ==
  /\ Len(uploads) = 2
  /\ uploads[1].src = uploads[2].src
  /\ uploads[2].preview = uploads[1].preview + 1
  /\ \A u \in {1, 2} : uploads[u].stage = "done" /\ uploads[u].appended = 1
  /\ Len(dataItems) >= 2
  /\ dataItems[Len(dataItems)] = ItemOf(RespOk)
  /\ dataItems[Len(dataItems) - 1] = ItemOf(RespOk)
  /\ Len(list) >= 4
  /\ list[Len(list)] = Len(node) /\ list[Len(list) - 1] = Len(node) - 1

\* C26: after a complete successful upload the preview node is no longer in
\* the list, and save() returns exactly one item more than before the upload.
C26_PreviewReplaced ==
  \A u \in DOMAIN uploads :
    (mounted /\ uploads[u].stage = "done" /\ uploads[u].appended = 1 /\ uploads[u].quiet)
    => /\ ~InSeq(uploads[u].preview, list)
       /\ SaveResult = Append(uploads[u].before, dataItems[Len(dataItems)])

\* C27: the drop of a gesture started on a node of the list moves that node by
\* the before/after rule and raises no error, whatever was rendered since the
\* dragstart.
C27_GestureSurvivesRender ==
  [][\A n \in DOMAIN node :
       (Drop(n) /\ InSeq(drag.src, list))
       => list' = MoveByRule(list, drag.src, n) /\ ~threw']_vars

\* C28: a drop of a drag that did not start on a node of the list leaves the
\* order of the list as it was and raises no error.
C28_DropWithoutGesture ==
  [][\A n \in DOMAIN node :
       (Drop(n) /\ drag.src = External) => list' = list /\ ~threw']_vars

\* C29: the data object the constructor was given stays as it was passed in.
C29_ConstructorDataUntouched == [][dataArg' = dataArg]_vars

\* C30: with readOnly true, a remove click, a drop and a caption edit leave
\* what save() returns as it was.
C30_ReadOnlyFreezesItems ==
  [][readOnly =>
       \A n \in DOMAIN node :
         (RemoveClick(n) \/ Drop(n) \/ \E t \in TypedTexts : EditCaption(n, t))
         => SaveResult' = SaveResult]_vars

====
